---- MODULE Spec2Model ----
(***************************************************************************)
(* The LRU cache (src/src/lru_cache.rs) over the doubly linked list        *)
(* (src/src/doubly_linked_list.rs).                                        *)
(*                                                                         *)
(* Nodes live in a heap of cells.  An Rc<RefCell<Node>> is the cell's      *)
(* number, Option::None is Null, and a Weak whose target has been dropped  *)
(* is Dangling (its upgrade() answers None).  A cell is dropped when no    *)
(* strong reference (head, tail, a live node's next, an iterator cursor)   *)
(* names it any more.                                                      *)
(***************************************************************************)
EXTENDS Integers, Sequences, FiniteSets, TLC

\* ------------------------------------------------------------- bounds
MaxKey == 3
MaxVal == 2
MaxCap == 2
MaxLen == 3
MaxCalls == 4

Keys == 1..MaxKey
Values == 1..MaxVal
Null == 0
Dangling == 0 - 1
Cells == 1..((IF MaxCap + 1 > MaxLen THEN MaxCap + 1 ELSE MaxLen) + 2)

VARIABLES
    head,       \* List.head : Option<NodePtr<T>>
    tail,       \* List.tail : Option<NodePtr<T>>
    count,      \* List.count
    nodes,      \* the heap: cell -> Node (value, next, prev) or a free cell
    map,        \* LRU.map : key -> Weak<RefCell<Node<T>>>
    capacity,   \* LRU.capacity
    iter,       \* the ListIterator the caller holds, if any, and what it yielded
    op,         \* the last call and what it returned
    held,       \* an Rc to a node the caller holds (Null for none)
    refCache,   \* reference LRU: <<[k, v], ...>> least recently touched first
    refSeq      \* reference sequence of the values pushed on the list

vars == <<head, tail, count, nodes, map, capacity, iter, op, held, refCache, refSeq>>

\* ------------------------------------------------------------- the heap
Blank == [value |-> 0, next |-> Null, prev |-> Null, live |-> FALSE]

Node_new(value) == [value |-> value, next |-> Null, prev |-> Null, live |-> TRUE]

\* Rc::new: the lowest free cell.
Alloc(S) ==
    CHOOSE c \in Cells : /\ ~S.nodes[c].live
                         /\ \A d \in Cells : ~S.nodes[d].live => c <= d

\* Weak::upgrade: None once the target is dropped.
upgrade(S, w) == IF w \in Cells /\ S.nodes[w].live THEN w ELSE Null

\* Dropping the last strong reference frees the node (and with it the strong
\* reference its next holds); every Weak to it stops resolving.
DropCell(S, c) ==
    [S EXCEPT
        !.nodes = [d \in Cells |->
                     IF d = c THEN Blank
                     ELSE [S.nodes[d] EXCEPT !.prev = IF @ = c THEN Dangling ELSE @]],
        !.map = [k \in DOMAIN S.map |-> IF S.map[k] = c THEN Dangling ELSE S.map[k]]]

\* The cells some strong reference names.
Owned(S) ==
    {S.head, S.tail, S.current, S.current_back, S.held}
    \cup {S.nodes[d].next : d \in {e \in Cells : S.nodes[e].live}}

RECURSIVE Release(_)
Release(S) ==
    LET dead == {c \in Cells : S.nodes[c].live /\ c \notin Owned(S)}
    IN  IF dead = {} THEN S
        ELSE Release(DropCell(S, CHOOSE c \in dead : TRUE))

\* ------------------------------------------------------------- List
List_new == [head |-> Null, tail |-> Null, count |-> 0]

len(S) == S.count

\* Faulty variant: the old head's prev is not pointed at the new node.
push_front_noprev(S, value) ==
    LET n == Alloc(S)
    IN  IF S.head = Null
        THEN [S EXCEPT !.nodes[n] = Node_new(value),
                       !.head = n, !.tail = n, !.count = @ + 1]
        ELSE [S EXCEPT !.nodes[n] = [Node_new(value) EXCEPT !.next = S.head],
                       !.head = n, !.count = @ + 1]

push_front(S, value) ==
    LET n == Alloc(S)
    IN  IF S.head = Null
        THEN [S EXCEPT !.nodes[n] = Node_new(value),
                       !.head = n, !.tail = n, !.count = @ + 1]
        ELSE [S EXCEPT !.nodes[n] = [Node_new(value) EXCEPT !.next = S.head],
                       !.nodes[S.head].prev = n,
                       !.head = n, !.count = @ + 1]

\* pop_front: the state after, and the value returned (Null for None).
\* Faulty variant: removing the last node leaves tail pointing at it.
pop_front_keep_tail(S) ==
    IF S.head = Null THEN [st |-> S, ret |-> Null]
    ELSE LET h == S.head
             next == S.nodes[h].next
             S1 == [S EXCEPT !.head = Null, !.nodes[h].next = Null]
             S2 == IF next = Null
                   THEN S1
                   ELSE [S1 EXCEPT !.nodes[next].prev = Null, !.head = next]
         IN  [st |-> [S2 EXCEPT !.count = @ - 1], ret |-> S.nodes[h].value]

pop_front(S) ==
    IF S.head = Null THEN [st |-> S, ret |-> Null]
    ELSE LET h == S.head
             next == S.nodes[h].next
             S1 == [S EXCEPT !.head = Null, !.nodes[h].next = Null]
             S2 == IF next = Null
                   THEN [S1 EXCEPT !.tail = Null]
                   ELSE [S1 EXCEPT !.nodes[next].prev = Null, !.head = next]
         IN  [st |-> [S2 EXCEPT !.count = @ - 1], ret |-> S.nodes[h].value]

push_back(S, value) ==
    LET n == Alloc(S)
    IN  IF S.tail = Null
        THEN [S EXCEPT !.nodes[n] = Node_new(value),
                       !.head = n, !.tail = n, !.count = @ + 1]
        ELSE [S EXCEPT !.nodes[n] = [Node_new(value) EXCEPT !.prev = S.tail],
                       !.nodes[S.tail].next = n,
                       !.tail = n, !.count = @ + 1]

\* Faulty variant: the new tail's next still owns the popped node.
pop_back_keeps_next(S) ==
    IF S.tail = Null THEN [st |-> S, ret |-> Null]
    ELSE LET t == S.tail
             prev == S.nodes[t].prev
             S1 == [S EXCEPT !.tail = Null, !.nodes[t].prev = Null]
             S2 == IF prev = Null
                   THEN [S1 EXCEPT !.head = Null]
                   ELSE IF upgrade(S, prev) # Null
                        THEN [S1 EXCEPT !.tail = upgrade(S, prev)]
                        ELSE S1
         IN  [st |-> [S2 EXCEPT !.count = @ - 1], ret |-> S.nodes[t].value]

\* pop_back: the state after, and the value returned (Null for None).
pop_back(S) ==
    IF S.tail = Null THEN [st |-> S, ret |-> Null]
    ELSE LET t == S.tail
             prev == S.nodes[t].prev
             S1 == [S EXCEPT !.tail = Null, !.nodes[t].prev = Null]
             S2 == IF prev = Null
                   THEN [S1 EXCEPT !.head = Null]
                   ELSE IF upgrade(S, prev) # Null
                        THEN [S1 EXCEPT !.nodes[upgrade(S, prev)].next = Null,
                                        !.tail = upgrade(S, prev)]
                        ELSE S1
         IN  [st |-> [S2 EXCEPT !.count = @ - 1], ret |-> S.nodes[t].value]

\* Faulty variant: removing the tail leaves its predecessor's next in place.
remove_node_tail_keeps_next(S, node) ==
    LET prev == upgrade(S, S.nodes[node].prev)
        next == S.nodes[node].next
        S1 == [S EXCEPT !.nodes[node].prev = Null, !.nodes[node].next = Null]
    IN  CASE prev = Null /\ next = Null ->
                [S1 EXCEPT !.head = Null, !.tail = Null]
          [] prev = Null /\ next # Null ->
                [S1 EXCEPT !.nodes[next].prev = Null, !.head = next]
          [] prev # Null /\ next = Null ->
                [S1 EXCEPT !.tail = prev]
          [] prev # Null /\ next # Null ->
                [S1 EXCEPT !.nodes[next].prev = prev, !.nodes[prev].next = next]

\* Faulty variant: splicing out an interior node leaves its successor's prev
\* pointing at the removed node.
remove_node_stale_prev(S, node) ==
    LET prev == upgrade(S, S.nodes[node].prev)
        next == S.nodes[node].next
        S1 == [S EXCEPT !.nodes[node].prev = Null, !.nodes[node].next = Null]
    IN  CASE prev = Null /\ next = Null ->
                [S1 EXCEPT !.head = Null, !.tail = Null]
          [] prev = Null /\ next # Null ->
                [S1 EXCEPT !.nodes[next].prev = Null, !.head = next]
          [] prev # Null /\ next = Null ->
                [S1 EXCEPT !.nodes[prev].next = Null, !.tail = prev]
          [] prev # Null /\ next # Null ->
                [S1 EXCEPT !.nodes[prev].next = next]

remove_node(S, node) ==
    LET prev == upgrade(S, S.nodes[node].prev)
        next == S.nodes[node].next
        S1 == [S EXCEPT !.nodes[node].prev = Null, !.nodes[node].next = Null]
    IN  CASE prev = Null /\ next = Null ->
                [S1 EXCEPT !.head = Null, !.tail = Null]
          [] prev = Null /\ next # Null ->
                [S1 EXCEPT !.nodes[next].prev = Null, !.head = next]
          [] prev # Null /\ next = Null ->
                [S1 EXCEPT !.nodes[prev].next = Null, !.tail = prev]
          [] prev # Null /\ next # Null ->
                [S1 EXCEPT !.nodes[next].prev = prev, !.nodes[prev].next = next]

\* Faulty variant: the re-inserted node's prev is left empty.
push_node_back_noprev(S, node) ==
    IF S.tail = Null
    THEN [S EXCEPT !.head = node, !.tail = node]
    ELSE [S EXCEPT !.nodes[S.tail].next = node, !.tail = node]

push_node_back(S, node) ==
    IF S.tail = Null
    THEN [S EXCEPT !.head = node, !.tail = node]
    ELSE [S EXCEPT !.nodes[node].prev = S.tail,
                   !.nodes[S.tail].next = node,
                   !.tail = node]

\* Faulty variant: the node stays where it is.
move_node_to_back_stay(S, node) == S

\* Faulty variant: the node is removed and a new node with the same value is
\* pushed at the back.
move_node_to_back_realloc(S, node) ==
    [push_back(remove_node(S, node), S.nodes[node].value) EXCEPT !.count = S.count]

move_node_to_back(S, node) == push_node_back(remove_node(S, node), node)

get_weak_tail(S) == S.tail

\* List::iter: the two cursors of a new ListIterator.
List_iter(S) == [S EXCEPT !.current = S.head, !.current_back = S.tail]

\* ListIterator::next: the state after, and the value yielded (Null for None).
ListIterator_next(S) ==
    IF S.current = Null THEN [st |-> S, ret |-> Null]
    ELSE [st |-> [S EXCEPT !.current = S.nodes[S.current].next],
          ret |-> S.nodes[S.current].value]

\* ListIterator::next_back: the state after, and the value yielded.
ListIterator_next_back(S) ==
    IF S.current_back = Null THEN [st |-> S, ret |-> Null]
    ELSE LET cb == S.current_back
             prev == S.nodes[cb].prev
         IN  [st |-> [S EXCEPT !.current_back =
                                   IF prev = Null THEN Null ELSE upgrade(S, prev)],
              ret |-> S.nodes[cb].value]

RECURSIVE Walk(_, _, _)
Walk(S, c, fuel) ==
    IF c = Null \/ fuel = 0 THEN <<>>
    ELSE <<c>> \o Walk(S, S.nodes[c].next, fuel - 1)

\* The cells of the list, front to back.
ListCells(S) == Walk(S, S.head, Cardinality(Cells) + 1)

\* ------------------------------------------------------------- LRU
\* Faulty variant: eviction starts one entry late.
over_capacity_late(S) == len(S) > S.capacity + 1

\* self.list.len() > self.capacity
over_capacity(S) == len(S) > S.capacity

\* Faulty variant: a hit reads the value and leaves the recency order alone.
get_norefresh(S, k) ==
    IF k \notin DOMAIN S.map THEN [st |-> S, ret |-> Null]
    ELSE LET node == upgrade(S, S.map[k])
         IN  IF node = Null THEN [st |-> S, ret |-> Null]
             ELSE [st |-> S, ret |-> S.nodes[node].value]

\* Faulty variant: a miss on a stale locator erases it from the index.
get_purge(S, k) ==
    IF k \notin DOMAIN S.map THEN [st |-> S, ret |-> Null]
    ELSE LET node == upgrade(S, S.map[k])
         IN  IF node = Null
             THEN [st |-> [S EXCEPT !.map = [x \in DOMAIN S.map \ {k} |-> S.map[x]]],
                   ret |-> Null]
             ELSE [st |-> move_node_to_back(S, node), ret |-> S.nodes[node].value]

\* get: the state after, and the value returned (Null for None).
get(S, k) ==
    IF k \notin DOMAIN S.map THEN [st |-> S, ret |-> Null]
    ELSE LET node == upgrade(S, S.map[k])
         IN  IF node = Null THEN [st |-> S, ret |-> Null]
             ELSE [st |-> move_node_to_back(S, node), ret |-> S.nodes[node].value]

\* Faulty variant: eviction takes the entry at the back.
put_insert_pop_back(S, k, v) ==
    LET S1 == push_back(S, v)
        S2 == [S1 EXCEPT !.map = [x \in DOMAIN S1.map \cup {k} |->
                                     IF x = k THEN S1.tail ELSE S1.map[x]]]
    IN  IF len(S2) > S2.capacity THEN pop_back(S2).st ELSE S2

\* Faulty variant: a new entry is appended but the index is not pointed at it.
put_insert_unindexed(S, k, v) ==
    LET S1 == push_back(S, v)
    IN  IF over_capacity(S1) THEN pop_front(S1).st ELSE S1

put_insert(S, k, v) ==
    LET S1 == push_back(S, v)
        S2 == IF get_weak_tail(S1) # Null
              THEN [S1 EXCEPT !.map = [x \in DOMAIN S1.map \cup {k} |->
                                          IF x = k THEN get_weak_tail(S1) ELSE S1.map[x]]]
              ELSE S1
    IN  IF over_capacity(S2) THEN pop_front(S2).st ELSE S2

put_update(S, node, v) ==
    move_node_to_back([S EXCEPT !.nodes[node].value = v], node)

\* Faulty variant: every put inserts.
put_always_insert(S, k, v) == put_insert(S, k, v)

put(S, k, v) ==
    LET ptr == IF k \in DOMAIN S.map THEN upgrade(S, S.map[k]) ELSE Null
    IN  IF ptr = Null THEN put_insert(S, k, v) ELSE put_update(S, ptr, v)

\* ------------------------------------------------------------- reference LRU
\* The reference keeps the `cap` most recently touched distinct keys, least
\* recently touched first, each with the value of its latest put.  A key
\* outside them is touched again only by a put, which gives it a new value, so
\* nothing about it needs keeping.
RefKeys(r) == {r[i].k : i \in 1..Len(r)}

RefWithout(r, k) == SelectSeq(r, LAMBDA e : e.k # k)

RefValue(r, k) == (CHOOSE e \in {r[i] : i \in 1..Len(r)} : e.k = k).v

RefMostRecent(r, cap) ==
    IF Len(r) <= cap THEN r ELSE SubSeq(r, Len(r) - cap + 1, Len(r))

RefGet(r, k) == IF k \in RefKeys(r) THEN RefValue(r, k) ELSE Null

\* A successful get touches the key; a miss touches nothing.
RefTouch(r, k) ==
    IF k \in RefKeys(r)
    THEN Append(RefWithout(r, k), [k |-> k, v |-> RefValue(r, k)])
    ELSE r

RefPut(r, k, v, cap) ==
    RefMostRecent(Append(RefWithout(r, k), [k |-> k, v |-> v]), cap)

\* ------------------------------------------------------------- state machine
NoIter == [live |-> FALSE, current |-> Null, current_back |-> Null,
           fronts |-> <<>>, backs |-> <<>>]

State == [head |-> head, tail |-> tail, count |-> count, nodes |-> nodes,
          map |-> map, capacity |-> capacity,
          current |-> iter.current, current_back |-> iter.current_back,
          held |-> held]

\* The handler has returned: its locals are gone, what nothing owns is dropped.
Commit(S0) ==
    \E S \in {Release(S0)} :
        /\ head' = S.head
        /\ tail' = S.tail
        /\ count' = S.count
        /\ nodes' = S.nodes
        /\ map' = S.map
        /\ capacity' = S.capacity

\* LRU::with_capacity(n)
Init ==
    /\ head = List_new.head
    /\ tail = List_new.tail
    /\ count = List_new.count
    /\ nodes = [c \in Cells |-> Blank]
    /\ map = <<>>
    /\ capacity \in 1..MaxCap
    /\ iter = NoIter
    /\ op = [name |-> "new", k |-> 0, v |-> 0, ret |-> Null, hit |-> FALSE, stale |-> FALSE]
    /\ held = Null
    /\ refCache = <<>>
    /\ refSeq = <<>>

Put(k, v) ==
    /\ Commit(put(State, k, v))
    /\ op' = [name |-> "put", k |-> k, v |-> v, ret |-> Null,
              hit |-> k \in DOMAIN map /\ upgrade(State, map[k]) # Null,
              stale |-> k \in DOMAIN map /\ upgrade(State, map[k]) = Null]
    /\ refCache' = RefPut(refCache, k, v, capacity)
    /\ UNCHANGED <<iter, held, refSeq>>

Get(k) ==
    /\ LET r == get(State, k)
       IN  /\ Commit(r.st)
           /\ op' = [name |-> "get", k |-> k, v |-> 0, ret |-> r.ret,
                     hit |-> r.ret # Null,
                     stale |-> k \in DOMAIN map /\ upgrade(State, map[k]) = Null]
    /\ refCache' = RefTouch(refCache, k)
    /\ UNCHANGED <<iter, held, refSeq>>

Next ==
    \/ \E k \in Keys, v \in Values : Put(k, v)
    \/ \E k \in Keys : Get(k)

Spec == Init /\ [][Next]_vars

\* LRU::with_capacity(n) for any usize n, 0 included: the constructor checks
\* nothing and returns a cache.
InitAnyCap ==
    /\ head = List_new.head
    /\ tail = List_new.tail
    /\ count = List_new.count
    /\ nodes = [c \in Cells |-> Blank]
    /\ map = <<>>
    /\ capacity \in 0..MaxCap
    /\ iter = NoIter
    /\ op = [name |-> "new", k |-> 0, v |-> 0, ret |-> Null, hit |-> FALSE, stale |-> FALSE]
    /\ held = Null
    /\ refCache = <<>>
    /\ refSeq = <<>>

SpecAnyCap == InitAnyCap /\ [][Next]_vars

\* ------------------------------------------------------------- iteration
Called(name, ret) == [name |-> name, k |-> 0, v |-> 0, ret |-> ret, hit |-> FALSE, stale |-> FALSE]

\* let it = list.iter();  ListIterator borrows nothing, so the caller may keep
\* it across later calls.
Iter ==
    /\ ~iter.live
    /\ iter' = [live |-> TRUE,
                current |-> List_iter(State).current,
                current_back |-> List_iter(State).current_back,
                fronts |-> <<>>, backs |-> <<>>]
    /\ op' = Called("iter", Null)
    /\ UNCHANGED <<head, tail, count, nodes, map, capacity, held, refCache, refSeq>>

\* it.next()
IterNext ==
    /\ iter.live
    /\ Len(iter.fronts) + Len(iter.backs) < MaxCalls
    /\ LET r == ListIterator_next(State)
       IN  /\ iter' = [iter EXCEPT !.current = r.st.current,
                                   !.fronts = Append(@, r.ret)]
           /\ Commit(r.st)
           /\ op' = Called("next", r.ret)
    /\ UNCHANGED <<held, refCache, refSeq>>

\* it.next_back()
IterNextBack ==
    /\ iter.live
    /\ Len(iter.fronts) + Len(iter.backs) < MaxCalls
    /\ LET r == ListIterator_next_back(State)
       IN  /\ iter' = [iter EXCEPT !.current_back = r.st.current_back,
                                   !.backs = Append(@, r.ret)]
           /\ Commit(r.st)
           /\ op' = Called("next_back", r.ret)
    /\ UNCHANGED <<held, refCache, refSeq>>

\* drop(it)
IterDrop ==
    /\ iter.live
    /\ iter' = NoIter
    /\ Commit([State EXCEPT !.current = Null, !.current_back = Null])
    /\ op' = Called("drop_iter", Null)
    /\ UNCHANGED <<held, refCache, refSeq>>

\* The cache, with a caller that also calls lru.list.iter() once and holds
\* the iterator from then on.
NextIter ==
    \/ \E k \in Keys, v \in Values : Put(k, v)
    \/ \E k \in Keys : Get(k)
    \/ Iter

SpecIter == Init /\ [][NextIter]_vars

\* ------------------------------------------------------------- the list alone
\* List::new()
InitList ==
    /\ head = List_new.head
    /\ tail = List_new.tail
    /\ count = List_new.count
    /\ nodes = [c \in Cells |-> Blank]
    /\ map = <<>>
    /\ capacity = 0
    /\ iter = NoIter
    /\ op = Called("new", Null)
    /\ held = Null
    /\ refCache = <<>>
    /\ refSeq = <<>>

PushFront(v) ==
    /\ ~iter.live
    /\ count < MaxLen
    /\ Commit(push_front(State, v))
    /\ op' = Called("push_front", Null)
    /\ refSeq' = <<v>> \o refSeq
    /\ UNCHANGED <<iter, held, refCache>>

PushBack(v) ==
    /\ ~iter.live
    /\ count < MaxLen
    /\ Commit(push_back(State, v))
    /\ op' = Called("push_back", Null)
    /\ refSeq' = Append(refSeq, v)
    /\ UNCHANGED <<iter, held, refCache>>

\* The reference sequence without its first / last element.
RefPopFront(q) == IF q = <<>> THEN <<>> ELSE Tail(q)

RefPopBack(q) == IF q = <<>> THEN <<>> ELSE SubSeq(q, 1, Len(q) - 1)

PopFront ==
    /\ ~iter.live
    /\ LET r == pop_front(State)
       IN  /\ Commit(r.st)
           /\ op' = Called("pop_front", r.ret)
    /\ refSeq' = RefPopFront(refSeq)
    /\ UNCHANGED <<iter, held, refCache>>

PopBack ==
    /\ ~iter.live
    /\ LET r == pop_back(State)
       IN  /\ Commit(r.st)
           /\ op' = Called("pop_back", r.ret)
    /\ refSeq' = RefPopBack(refSeq)
    /\ UNCHANGED <<iter, held, refCache>>

NextList ==
    \/ \E v \in Values : PushFront(v)
    \/ \E v \in Values : PushBack(v)
    \/ Iter
    \/ IterNext
    \/ IterNextBack
    \/ IterDrop

SpecList == InitList /\ [][NextList]_vars

\* The reference sequence with its i-th element moved to the end.
RefMoveToBack(q, i) ==
    SubSeq(q, 1, i - 1) \o SubSeq(q, i + 1, Len(q)) \o <<q[i]>>

\* list.move_node_to_back(node), node an Rc the caller cloned from the i-th
\* node of the list and gives away with the call.
MoveToBack(i) ==
    /\ ~iter.live
    /\ i \in 1..Len(ListCells(State))
    /\ LET c == ListCells(State)[i]
       IN  /\ Commit(move_node_to_back(State, c))
           /\ op' = [name |-> "move_node_to_back", k |-> c, v |-> i,
                     ret |-> Null, hit |-> FALSE, stale |-> FALSE]
    /\ refSeq' = RefMoveToBack(refSeq, i)
    /\ UNCHANGED <<iter, held, refCache>>

\* The deque operations and move_node_to_back on a node of the list.
NextLinks ==
    \/ \E v \in Values : PushFront(v)
    \/ \E v \in Values : PushBack(v)
    \/ PopFront
    \/ PopBack
    \/ \E i \in 1..MaxLen : MoveToBack(i)

SpecLinks == InitList /\ [][NextLinks]_vars

\* Position of cell c in the sequence of cells q (0 when absent).
IndexOf(q, c) == IF \E i \in 1..Len(q) : q[i] = c
                 THEN CHOOSE i \in 1..Len(q) : q[i] = c ELSE 0

\* let node = <an Rc cloned from the i-th node of the list>; the caller keeps it.
Hold(i) ==
    /\ ~iter.live
    /\ held = Null
    /\ i \in 1..Len(ListCells(State))
    /\ held' = ListCells(State)[i]
    /\ op' = [name |-> "hold", k |-> ListCells(State)[i], v |-> i,
              ret |-> Null, hit |-> FALSE, stale |-> FALSE]
    /\ UNCHANGED <<head, tail, count, nodes, map, capacity, iter, refCache, refSeq>>

\* drop(node)
DropHeld ==
    /\ held # Null
    /\ held' = Null
    /\ Commit([State EXCEPT !.held = Null])
    /\ op' = Called("drop_node", Null)
    /\ UNCHANGED <<iter, refCache, refSeq>>

\* list.remove_node(&mut node), node in the list; the caller still holds it.
RemoveNode ==
    /\ ~iter.live
    /\ held # Null
    /\ held \in {ListCells(State)[i] : i \in 1..Len(ListCells(State))}
    /\ Commit(remove_node(State, held))
    /\ op' = [name |-> "remove_node", k |-> held, v |-> IndexOf(ListCells(State), held),
              ret |-> Null, hit |-> FALSE, stale |-> FALSE]
    /\ refSeq' = [i \in 1..Len(ListCells(remove_node(State, held))) |->
                     nodes[ListCells(remove_node(State, held))[i]].value]
    /\ UNCHANGED <<iter, held, refCache>>

\* list.push_node_back(node), node detached; the call takes the caller's Rc.
PushNodeBack ==
    /\ ~iter.live
    /\ held # Null
    /\ held \notin {ListCells(State)[i] : i \in 1..Len(ListCells(State))}
    /\ Len(ListCells(State)) < MaxLen
    /\ held' = Null
    /\ Commit([push_node_back(State, held) EXCEPT !.held = Null])
    /\ op' = [name |-> "push_node_back", k |-> held, v |-> 0, ret |-> Null,
              hit |-> FALSE, stale |-> FALSE]
    /\ refSeq' = Append(refSeq, nodes[held].value)
    /\ UNCHANGED <<iter, refCache>>

\* The value the caller pushes into a new node: one value per cell, so that
\* the nodes of a list can be told apart by their values.
ValueFor(c) == ((c - 1) % MaxVal) + 1

\* Every public mutating operation of the list, with a caller that may hold
\* an Rc to one node.  The list is kept to MaxLen nodes, and count to one
\* decrement below zero.
NextOps ==
    \/ \E v \in {ValueFor(Alloc(State))} : Len(ListCells(State)) < MaxLen /\ PushFront(v)
    \/ \E v \in {ValueFor(Alloc(State))} : Len(ListCells(State)) < MaxLen /\ PushBack(v)
    \/ count >= 0 /\ PopFront
    \/ count >= 0 /\ PopBack
    \/ \E i \in 1..MaxLen : MoveToBack(i)
    \/ \E i \in 1..MaxLen : Hold(i)
    \/ DropHeld
    \/ RemoveNode
    \/ PushNodeBack

SpecOps == InitList /\ [][NextOps]_vars

\* Drop for List, one step per turn of `while self.pop_back().is_some() {}`.
\* op.name is "drop" while the loop runs and "dropped" once the list is gone;
\* op.v counts the nodes popped so far.
Tearing == op.name = "drop"

Torn == op.name = "dropped"

\* The list goes out of scope: drop(&mut self) is entered.
DropBegin ==
    /\ ~iter.live
    /\ ~Tearing /\ ~Torn
    /\ op' = Called("drop", Null)
    /\ UNCHANGED <<head, tail, count, nodes, map, capacity, iter, held, refCache, refSeq>>

\* self.pop_back() returns Some: the loop goes round again.
DropPop ==
    /\ Tearing
    /\ \E r \in {pop_back(State)} :
           /\ r.ret # Null
           /\ Commit(r.st)
           /\ op' = [name |-> "drop", k |-> tail, v |-> op.v + 1, ret |-> r.ret,
                     hit |-> FALSE, stale |-> FALSE]
    /\ refSeq' = RefPopBack(refSeq)
    /\ UNCHANGED <<iter, held, refCache>>

\* self.pop_back() returns None: the loop ends, drop returns and the fields
\* head and tail are dropped with the list.
DropEnd ==
    /\ Tearing
    /\ \E r \in {pop_back(State)} :
           /\ r.ret = Null
           /\ Commit([r.st EXCEPT !.head = Null, !.tail = Null])
    /\ op' = [name |-> "dropped", k |-> Null, v |-> op.v, ret |-> Null,
              hit |-> FALSE, stale |-> FALSE]
    /\ UNCHANGED <<iter, held, refCache, refSeq>>

\* The list's operations until the list is dropped; nothing else runs between
\* the turns of the loop in drop, and nothing uses the list after it.
NextDrop ==
    \/ ~Tearing /\ ~Torn /\ NextOps
    \/ DropBegin
    \/ DropPop
    \/ DropEnd

\* drop is a loop in a single thread: once entered, each of its turns is taken.
SpecDrop ==
    /\ InitList
    /\ [][NextDrop]_vars
    /\ WF_vars(DropPop)
    /\ WF_vars(DropEnd)

\* The list used as a deque.
NextDeque ==
    \/ \E v \in Values : PushFront(v)
    \/ \E v \in Values : PushBack(v)
    \/ PopFront
    \/ PopBack

SpecDeque == InitList /\ [][NextDeque]_vars

\* ------------------------------------------------------------- observations
Range(q) == {q[i] : i \in 1..Len(q)}

SeqWithout(q, x) == SelectSeq(q, LAMBDA e : e # x)

\* The keys whose locator resolves.
LiveKeys(S) == {k \in DOMAIN S.map : upgrade(S, S.map[k]) # Null}

RECURSIVE WalkBack(_, _, _)
WalkBack(S, c, fuel) ==
    IF c = Null \/ fuel = 0 THEN <<>>
    ELSE <<c>> \o WalkBack(S, upgrade(S, S.nodes[c].prev), fuel - 1)

\* The cells met from tail along prev, back to front.
BackCells(S) == WalkBack(S, S.tail, Cardinality(Cells) + 1)

Reverse(q) == [i \in 1..Len(q) |-> q[Len(q) + 1 - i]]

\* The values of the list, front to back.
ListValues(S) == [i \in 1..Len(ListCells(S)) |-> S.nodes[ListCells(S)[i]].value]

\* ------------------------------------------------------------- claims C1..C8
\* C1: every get returns what the reference LRU returns: the value of the
\* latest put for the key if the key is among the `capacity` most recently
\* touched distinct keys, None otherwise; in every reachable state this is
\* also what a get on any key would return.
GetRefinesReference ==
    /\ op.name = "get" => op.ret = RefGet(refCache, op.k)
    /\ \A k \in Keys : get(State, k).ret = RefGet(refCache, k)

\* A get missed on a key that had been put and was evicted since.
GetRefinesReferenceWitness ==
    /\ op.name = "get"
    /\ op.ret = Null
    /\ op.k \in DOMAIN map
    /\ \E k \in Keys : k # op.k /\ get(State, k).ret # Null

\* C2: after each call the list holds at most `capacity` nodes, and len()
\* is at most `capacity`.
CapacityBound ==
    /\ len(State) <= capacity
    /\ Len(ListCells(State)) <= capacity
    /\ Cardinality(LiveKeys(State)) <= capacity

\* The cache is full and has evicted.
CapacityBoundWitness ==
    /\ op.name = "put"
    /\ len(State) = capacity
    /\ Cardinality(DOMAIN map) > capacity

\* What C3 asks of a single step.
EvictionIdentityStep ==
    (op'.name = "put" /\ ~op'.hit /\ len(State) >= capacity) =>
        LET lru == refCache[1].k
        IN  /\ map[lru] = head
            /\ LiveKeys(State) \ LiveKeys(State') = {lru}
            /\ LiveKeys(State') = (LiveKeys(State) \ {lru}) \cup {op'.k}
            /\ ListCells(State') = Tail(ListCells(State)) \o <<map'[op'.k]>>
            /\ \A c \in Range(Tail(ListCells(State))) :
                   nodes'[c].value = nodes[c].value

\* C3: a put that triggers eviction (a key that does not resolve, on a full
\* cache) removes exactly the front node, whose key is the least recently
\* touched one before the call, and no other entry.
EvictionIdentity == [][EvictionIdentityStep]_vars

\* A put on a cache of two or more entries has just evicted.
EvictionIdentityWitness ==
    /\ op.name = "put"
    /\ ~op.hit
    /\ capacity >= 2
    /\ len(State) = capacity
    /\ DOMAIN map # LiveKeys(State)

\* C4 (as claimed): the keys of the index are in one-to-one correspondence
\* with the nodes of the list.
IndexListAgreement ==
    /\ Cardinality(DOMAIN map) = Len(ListCells(State))
    /\ \A k \in DOMAIN map : upgrade(State, map[k]) \in Range(ListCells(State))
    /\ \A k1, k2 \in DOMAIN map : map[k1] = map[k2] => k1 = k2

\* C5: front to back the list holds the live entries in increasing order of
\* last touch; the front is the least and the back the most recently touched;
\* back to front (along prev) is the exact reverse.
RecencyOrdering ==
    LET live == refCache
        cells == ListCells(State)
    IN  /\ Len(cells) = Len(live)
        /\ \A i \in 1..Len(live) :
              /\ live[i].k \in DOMAIN map
              /\ map[live[i].k] = cells[i]
              /\ nodes[cells[i]].value = live[i].v
        /\ cells # <<>> => head = cells[1] /\ tail = cells[Len(cells)]
        /\ BackCells(State) = Reverse(cells)

\* A hit has moved an entry that was not the newest behind a newer one.
RecencyOrderingWitness ==
    /\ op.name = "get"
    /\ op.hit
    /\ Len(ListCells(State)) >= 2
    /\ tail = map[op.k]
    /\ \E k \in DOMAIN map : k > op.k /\ map[k] = head

\* What C6 asks of a single step.
HitRefreshStep ==
    (op'.name = "get" /\ op'.k \in LiveKeys(State)) =>
        LET c == map[op'.k]
        IN  /\ op'.ret = nodes[c].value
            /\ len(State') = len(State)
            /\ map' = map
            /\ tail' = c
            /\ ListCells(State') = SeqWithout(ListCells(State), c) \o <<c>>
            /\ \A d \in Range(ListCells(State)) : nodes'[d].value = nodes[d].value

UpdateSemanticsStep ==
    (op'.name = "put" /\ op'.k \in LiveKeys(State)) =>
        LET c == map[op'.k]
        IN  /\ nodes'[c].value = op'.v
            /\ map' = map
            /\ tail' = c
            /\ len(State') = len(State)
            /\ LiveKeys(State') = LiveKeys(State)
            /\ ListCells(State') = SeqWithout(ListCells(State), c) \o <<c>>
            /\ \A d \in Range(ListCells(State)) \ {c} :
                   nodes'[d].value = nodes[d].value

\* C7: a put on a live key writes the value into the same node, moves it to
\* the back, keeps the length, evicts nothing and changes no other value,
\* also on a full cache.
UpdateSemantics == [][UpdateSemanticsStep]_vars

\* An update has just run on a full cache of two or more entries.
UpdateSemanticsWitness ==
    /\ op.name = "put"
    /\ op.hit
    /\ capacity >= 2
    /\ len(State) = capacity
    /\ Len(ListCells(State)) = capacity

\* What C8 asks of a single step.
GetMissFrameStep ==
    (op'.name = "get" /\ op'.ret = Null) =>
        UNCHANGED <<head, tail, count, nodes, map>>

\* C8: a get that returns None leaves the list and the index as they were.
GetMissFrame == [][GetMissFrameStep]_vars

\* A get has missed on an evicted key while other entries are live.
GetMissFrameWitness ==
    /\ op.name = "get"
    /\ ~op.hit
    /\ op.k \in DOMAIN map
    /\ map[op.k] = Dangling
    /\ head # Null

\* ------------------------------------------------------------- claims C9..C10
\* C9 (as claimed): a locator whose node is no longer in the list does not
\* resolve, so a get on an evicted key returns None (what the reference LRU
\* returns), also while the caller holds a ListIterator.
RemovedLocatorUnusable ==
    /\ \A k \in DOMAIN map :
          map[k] \notin Range(ListCells(State)) => upgrade(State, map[k]) = Null
    /\ op.name = "get" => op.ret = RefGet(refCache, op.k)

\* C10: on a list built by push_back and push_front, an iterator advanced
\* only with next() yields the sequence front to back and then None, and one
\* advanced only with next_back() (iter().rev()) yields it reversed, then None.
ListRoundTrip ==
    iter.live =>
        /\ iter.backs = <<>> =>
              \A i \in 1..Len(iter.fronts) :
                  iter.fronts[i] = IF i <= Len(refSeq) THEN refSeq[i] ELSE Null
        /\ iter.fronts = <<>> =>
              \A i \in 1..Len(iter.backs) :
                  iter.backs[i] = IF i <= Len(refSeq)
                                  THEN refSeq[Len(refSeq) + 1 - i] ELSE Null

\* A reversed iteration has run to its end over a list of two or more values
\* pushed at both ends.
ListRoundTripWitness ==
    /\ iter.live
    /\ iter.fronts = <<>>
    /\ Len(refSeq) >= 2
    /\ Len(iter.backs) = Len(refSeq) + 1
    /\ refSeq[1] # refSeq[Len(refSeq)]
    /\ ListValues(State) = refSeq

\* ------------------------------------------------------------- claims C11..C19
\* What C11 asks of a single step.
DequeStep ==
    /\ ListValues(State') = refSeq'
    /\ refSeq' = <<>> => head' = Null /\ tail' = Null
    /\ op'.name = "pop_front" =>
          op'.ret = IF refSeq = <<>> THEN Null ELSE refSeq[1]
    /\ op'.name = "pop_back" =>
          op'.ret = IF refSeq = <<>> THEN Null ELSE refSeq[Len(refSeq)]

\* C11: under any interleaving of push_front, push_back, pop_front and
\* pop_back the list is the reference sequence: pop_front returns and removes
\* the first element, pop_back the last, both return None on the empty list,
\* and removing the last node leaves head and tail absent.
DequeBehaviour == [][DequeStep]_vars

\* A pop_back has just removed and returned the last remaining node.
DequeBehaviourWitness ==
    /\ op.name = "pop_back"
    /\ op.ret # Null
    /\ refSeq = <<>>
    /\ head = Null
    /\ tail = Null
    /\ count = 0

\* The values among the yields (a None is Null).
Yielded(q) == SelectSeq(q, LAMBDA x : x # Null)

\* C12 (as claimed): on one iterator over a list of n elements, any
\* interleaving of next() and next_back() yields each element once: at most n
\* values in all, the fronts in front-to-back order, the backs in back-to-front
\* order, and None only once the two cursors have met.
InterleavedIteration ==
    iter.live =>
        LET n == Len(refSeq)
            f == Yielded(iter.fronts)
            b == Yielded(iter.backs)
        IN  /\ Len(f) + Len(b) <= n
            /\ \A i \in 1..Len(f) : i <= n /\ f[i] = refSeq[i]
            /\ \A j \in 1..Len(b) : j <= n /\ b[j] = refSeq[n + 1 - j]
            /\ (Null \in Range(iter.fronts) \cup Range(iter.backs)) =>
                   Len(f) + Len(b) = n

\* C13 (as claimed): a cache of capacity 0 fails fast, so no put on it ever
\* returns normally.
ZeroCapacityFailsFast == capacity = 0 => op.name # "put"

\* C14: after every sequence of push_front, push_back, pop_front, pop_back
\* and move_node_to_back on a node of the list: head is absent iff tail is
\* absent iff count is 0; the next chain from head has exactly count nodes,
\* no node twice, ending in tail, whose next is empty; head's prev is empty;
\* every other node's prev resolves to its predecessor in the chain.
LinkInvariant ==
    LET cells == ListCells(State)
        n == Len(cells)
    IN  /\ (head = Null) <=> (tail = Null)
        /\ (head = Null) <=> (count = 0)
        /\ n = count
        /\ Cardinality(Range(cells)) = n
        /\ n > 0 => /\ cells[n] = tail
                    /\ nodes[tail].next = Null
                    /\ nodes[head].prev = Null
        /\ \A i \in 2..n : /\ nodes[cells[i]].prev = cells[i - 1]
                           /\ upgrade(State, nodes[cells[i]].prev) = cells[i - 1]
        /\ ListValues(State) = refSeq

\* The middle node of a list of three has just been moved to the back.
LinkInvariantWitness ==
    /\ op.name = "move_node_to_back"
    /\ op.v = 2
    /\ count = 3
    /\ tail = op.k
    /\ nodes[tail].prev # Null


\* What C15 asks of a single remove_node step on the node op'.k.
RemoveNodeStep ==
    op'.name = "remove_node" =>
        LET c     == op'.k
            cells == ListCells(State)
            n     == Len(cells)
            i     == IndexOf(cells, c)
        IN  /\ i # 0
            /\ n = 1 => head' = Null /\ tail' = Null
            /\ (n > 1 /\ i = 1) =>
                   /\ head' = cells[2]
                   /\ nodes'[cells[2]].prev = Null
                   /\ tail' = tail
            /\ (n > 1 /\ i = n) =>
                   /\ tail' = cells[n - 1]
                   /\ nodes'[cells[n - 1]].next = Null
                   /\ head' = head
            /\ (1 < i /\ i < n) =>
                   /\ nodes'[cells[i - 1]].next = cells[i + 1]
                   /\ upgrade(State', nodes'[cells[i + 1]].prev) = cells[i - 1]
                   /\ head' = head
                   /\ tail' = tail
            /\ nodes'[c].live
            /\ nodes'[c].value = nodes[c].value
            /\ nodes'[c].prev = Null
            /\ nodes'[c].next = Null
            /\ ListCells(State') = SeqWithout(cells, c)
            /\ BackCells(State') = Reverse(SeqWithout(cells, c))
            /\ \A d \in Range(cells) \ {c} : nodes'[d].value = nodes[d].value

\* C15: remove_node on a node in the list detaches exactly that node in
\* each of the four positions (sole node: head and tail become empty; head:
\* the successor becomes head with prev cleared; tail: the predecessor
\* becomes tail with next cleared; interior: the predecessor's next is the
\* successor and the successor's prev resolves to the predecessor);
\* afterwards the removed node's prev and next are empty, it is reachable
\* neither from head nor from tail, and the remaining nodes keep their order.
RemoveNodeCases == [][RemoveNodeStep]_vars

\* An interior node of a three-node list has just been removed and the two
\* others are linked to each other.
RemoveNodeCasesWitness ==
    /\ op.name = "remove_node"
    /\ held = op.k
    /\ Len(ListCells(State)) = 2
    /\ head # held /\ tail # held
    /\ op.v = 2
    /\ nodes[head].next = tail
    /\ upgrade(State, nodes[tail].prev) = head


\* A pop that returns a node leaves a count that is not below zero: count is
\* a usize, and a count below zero here stands for the decrement of 0, which
\* panics in a build with overflow checks and wraps to 2^64 - 1 in one without.
PopNeverUnderflows ==
    (op.name \in {"pop_front", "pop_back"} /\ op.ret # Null) => count >= 0

\* C16: len() equals the number of nodes reachable from head after every
\* sequence of push_front, push_back, pop_front, pop_back, remove_node,
\* push_node_back and move_node_to_back, so that a pop which returns a node
\* never decrements a count of 0.
LenCountsNodes ==
    /\ len(State) = Len(ListCells(State))
    /\ PopNeverUnderflows


\* The cells of live nodes.
LiveCells(S) == {c \in Cells : S.nodes[c].live}

\* What C17 asks of a single step of the cache that calls move_node_to_back:
\* a get or a put of a key whose locator resolves.
MoveToBackFrameStep ==
    (op'.name \in {"get", "put"} /\ op'.hit) =>
        LET c     == upgrade(State, map[op'.k])
            cells == ListCells(State)
        IN  /\ c \in Range(cells)
            /\ nodes'[c].live
            /\ nodes'[c].value = IF op'.name = "put" THEN op'.v ELSE nodes[c].value
            /\ tail' = c
            /\ nodes'[c].next = Null
            /\ len(State') = len(State)
            /\ LiveCells(State') = LiveCells(State)
            /\ Range(ListCells(State')) = Range(cells)
            /\ SeqWithout(ListCells(State'), c) = SeqWithout(cells, c)
            /\ BackCells(State') = Reverse(ListCells(State'))
            /\ \A k \in DOMAIN map :
                   upgrade(State, map[k]) # Null =>
                       /\ k \in DOMAIN map'
                       /\ upgrade(State', map'[k]) = upgrade(State, map[k])

KeysOf(S, c) == {k \in DOMAIN S.map : upgrade(S, S.map[k]) = c}

\* C18: in every state reached by put and get, every node in the list is the
\* resolved target of exactly one key of the index and no two keys resolve to
\* the same node; in particular a key put again after its eviction has
\* exactly one node in the list.
OneNodePerKey ==
    LET cells == ListCells(State)
    IN  /\ \A c \in Range(cells) : Cardinality(KeysOf(State, c)) = 1
        /\ \A k1, k2 \in LiveKeys(State) :
               upgrade(State, map[k1]) = upgrade(State, map[k2]) => k1 = k2
        /\ \A k \in LiveKeys(State) : upgrade(State, map[k]) \in Range(cells)
        /\ Cardinality(Range(cells)) = Len(cells)
        /\ Cardinality(LiveKeys(State)) = Len(cells)
        /\ (op.name = "put" /\ op.stale) =>
               /\ op.k \in LiveKeys(State)
               /\ Cardinality({i \in 1..Len(cells) : cells[i] = upgrade(State, map[op.k])}) = 1
               /\ upgrade(State, map[op.k]) = tail

\* A key whose locator was left dangling by its eviction has just been put
\* again into a cache of two entries, next to another live key.
OneNodePerKeyWitness ==
    /\ op.name = "put"
    /\ op.stale
    /\ capacity = 2
    /\ Len(ListCells(State)) = 2
    /\ KeysOf(State, tail) = {op.k}
    /\ Cardinality(LiveKeys(State)) = 2
    /\ Cardinality(DOMAIN map) = 3


\* The cells reached from c along next, c first.
Chain(S, c) == Walk(S, c, Cardinality(Cells) + 1)

\* No node is reached from itself along owning references, and every live
\* node is owned by head, tail, a next link or the caller, never by a prev.
NoOwningCycle ==
    /\ \A c \in LiveCells(State) :
           /\ Len(Chain(State, c)) <= Cardinality(Cells)
           /\ Cardinality(Range(Chain(State, c))) = Len(Chain(State, c))
    /\ \A c \in LiveCells(State) :
           \/ c \in {head, tail, held}
           \/ \E d \in LiveCells(State) : nodes[d].next = c

\* One turn of the loop in drop: the tail, and only it, leaves the list, and is
\* freed unless the caller still holds it.
TeardownStep ==
    (Tearing /\ Tearing') =>
        LET cells == ListCells(State)
            n     == Len(cells)
        IN  /\ n > 0
            /\ op'.k = cells[n]
            /\ op'.v = op.v + 1
            /\ op'.ret = nodes[cells[n]].value
            /\ ListCells(State') = SubSeq(cells, 1, n - 1)
            /\ BackCells(State') = Reverse(SubSeq(cells, 1, n - 1))
            /\ LiveCells(State') = LiveCells(State) \ ({cells[n]} \ {held})

\* The state drop leaves: no head, no tail, and no node but one the caller
\* still holds, which owns and is owned by nothing of the list.
TornDown ==
    Torn =>
        /\ head = Null
        /\ tail = Null
        /\ LiveCells(State) \subseteq {held}
        /\ \A c \in LiveCells(State) : nodes[c].next = Null /\ nodes[c].prev = Null

\* The loop is left only by ending, and ends exactly when the list is empty.
TeardownEndStep ==
    /\ Tearing => Tearing' \/ Torn'
    /\ (Tearing /\ Torn') => ListCells(State) = <<>> /\ head = Null /\ tail = Null

====
